--------------------------- MODULE Spec2Model ---------------------------
(***************************************************************************)
(* A model of web-jingzi's forwarding server (src/src/server.rs): the      *)
(* Domain Table built by Forward::new, the accept loop of run, and the     *)
(* per-request pipeline of Forward::forward / Forward::request with its     *)
(* header rewriting, body transcoding (Coder) and body rewriting.          *)
(*                                                                         *)
(* Text is modelled as sequences of one-character strings, so that         *)
(* str::replace, split, trim_start and to_lowercase are computed as the    *)
(* code computes them.                                                     *)
(***************************************************************************)
EXTENDS Naturals, Sequences, FiniteSets, TLC

(***************************************************************************)
(* Texts used as configuration and as inputs.                              *)
(***************************************************************************)
\* "pub.example"
PubExample == <<"p", "u", "b", ".", "e", "x", "a", "m", "p", "l", "e">>

\* "origin.internal"
OriginInternal == <<"o", "r", "i", "g", "i", "n", ".", "i", "n", "t", "e", "r",
    "n", "a", "l">>

\* "o.io"
OIo == <<"o", ".", "i", "o">>

\* "p.io"
PIo == <<"p", ".", "i", "o">>

\* "q.io"
QIo == <<"q", ".", "i", "o">>

\* "w.io"
WIo == <<"w", ".", "i", "o">>

\* "other.example"
OtherExample == <<"o", "t", "h", "e", "r", ".", "e", "x", "a", "m", "p", "l",
    "e">>

\* "10.0.0.1"
IpLiteral == <<"1", "0", ".", "0", ".", "0", ".", "1">>

\* "127.0.0.1:1080"
RelayAddr == <<"1", "2", "7", ".", "0", ".", "0", ".", "1", ":", "1", "0", "8",
    "0">>

\* "https://origin.internal:8443/x"
LocOrigin == <<"h", "t", "t", "p", "s", ":", "/", "/", "o", "r", "i", "g", "i",
    "n", ".", "i", "n", "t", "e", "r", "n", "a", "l", ":", "8", "4", "4", "3",
    "/", "x">>

\* "https://pub.example/x"
LocOriginRewritten == <<"h", "t", "t", "p", "s", ":", "/", "/", "p", "u", "b",
    ".", "e", "x", "a", "m", "p", "l", "e", "/", "x">>

\* "http://o.io:8443/o.io"
LocTwice == <<"h", "t", "t", "p", ":", "/", "/", "o", ".", "i", "o", ":", "8",
    "4", "4", "3", "/", "o", ".", "i", "o">>

\* "/y"
LocRelative == <<"/", "y">>

\* "https://o.io/"
RefOrigin == <<"h", "t", "t", "p", "s", ":", "/", "/", "o", ".", "i", "o",
    "/">>

\* "id=1; Domain=origin.internal; Path=/; Secure"
CookieDomain == <<"i", "d", "=", "1", ";", " ", "D", "o", "m", "a", "i", "n",
    "=", "o", "r", "i", "g", "i", "n", ".", "i", "n", "t", "e", "r", "n", "a",
    "l", ";", " ", "P", "a", "t", "h", "=", "/", ";", " ", "S", "e", "c", "u",
    "r", "e">>

\* "a=b;DOMAIN=o.io"
CookieUpper == <<"a", "=", "b", ";", "D", "O", "M", "A", "I", "N", "=", "o",
    ".", "i", "o">>

\* "id=1; Domain=; Path=/"
CookieEmptyDomain == <<"i", "d", "=", "1", ";", " ", "D", "o", "m", "a", "i",
    "n", "=", ";", " ", "P", "a", "t", "h", "=", "/">>

\* "c=d; Path=/"
CookiePlain == <<"c", "=", "d", ";", " ", "P", "a", "t", "h", "=", "/">>

\* "domain="
DomainEq == <<"d", "o", "m", "a", "i", "n", "=">>

\* '{"u":"origin.internal:8443"}'
BodyJson == <<"{", "\"", "u", "\"", ":", "\"", "o", "r", "i", "g", "i", "n",
    ".", "i", "n", "t", "e", "r", "n", "a", "l", ":", "8", "4", "4", "3", "\"",
    "}">>

\* '{"u":"pub.example"}'
BodyJsonRewritten == <<"{", "\"", "u", "\"", ":", "\"", "p", "u", "b", ".",
    "e", "x", "a", "m", "p", "l", "e", "\"", "}">>

\* "o.io:8443 o.io"
BodyTwo == <<"o", ".", "i", "o", ":", "8", "4", "4", "3", " ", "o", ".", "i",
    "o">>

\* "hello"
BodyPlain == <<"h", "e", "l", "l", "o">>

\* "://"
SchemeSep == <<":", "/", "/">>

\* "https://"
HttpsPrefix == <<"h", "t", "t", "p", "s", ":", "/", "/">>

\* "https://origin.internal:8443"
SpecOrigin == <<"h", "t", "t", "p", "s", ":", "/", "/", "o", "r", "i", "g",
    "i", "n", ".", "i", "n", "t", "e", "r", "n", "a", "l", ":", "8", "4", "4",
    "3">>

\* "http://o.io"
SpecHttp == <<"h", "t", "t", "p", ":", "/", "/", "o", ".", "i", "o">>

\* "o.io:8443"
SpecBare == <<"o", ".", "i", "o", ":", "8", "4", "4", "3">>

\* "https://a.com:443"
SpecACom443 == <<"h", "t", "t", "p", "s", ":", "/", "/", "a", ".", "c", "o", "m", ":", "4", "4", "3">>

\* "https://a.com:8443"
SpecACom8443 == <<"h", "t", "t", "p", "s", ":", "/", "/", "a", ".", "c", "o", "m", ":", "8", "4", "4", "3">>

\* "a.com"
ACom == <<"a", ".", "c", "o", "m">>

\* "a.com": an origin specification without a scheme
SpecAComBare == ACom

\* "http://a.com"
SpecAComHttp == <<"h", "t", "t", "p", ":", "/", "/", "a", ".", "c", "o", "m">>

\* "http://a.com:80"
SpecAComHttp80 == <<"h", "t", "t", "p", ":", "/", "/", "a", ".", "c", "o", "m", ":", "8", "0">>

\* "http://a.com:8080"
SpecAComHttp8080 == <<"h", "t", "t", "p", ":", "/", "/", "a", ".", "c", "o", "m", ":", "8", "0", "8", "0">>

\* "https://a.com:80"
SpecAComHttps80 == <<"h", "t", "t", "p", "s", ":", "/", "/", "a", ".", "c", "o", "m", ":", "8", "0">>

\* "http://a.com:443"
SpecAComHttp443 == <<"h", "t", "t", "p", ":", "/", "/", "a", ".", "c", "o", "m", ":", "4", "4", "3">>

\* "HTTPS://A.COM"
SpecUpper == <<"H", "T", "T", "P", "S", ":", "/", "/", "A", ".", "C", "O", "M">>

\* "https://"
SpecNoHost == <<"h", "t", "t", "p", "s", ":", "/", "/">>

\* "https://a.com:0"
SpecPort0 == <<"h", "t", "t", "p", "s", ":", "/", "/", "a", ".", "c", "o", "m", ":", "0">>

\* "https://a.com:65535"
SpecPortMax == <<"h", "t", "t", "p", "s", ":", "/", "/", "a", ".", "c", "o", "m", ":", "6", "5", "5", "3", "5">>

\* "https://a.com:65536"
SpecPortBig == <<"h", "t", "t", "p", "s", ":", "/", "/", "a", ".", "c", "o", "m", ":", "6", "5", "5", "3", "6">>

\* "https://a.com:x"
SpecPortText == <<"h", "t", "t", "p", "s", ":", "/", "/", "a", ".", "c", "o", "m", ":", "x">>

\* "foo://o.io"
SpecFooNoPort == <<"f", "o", "o", ":", "/", "/", "o", ".", "i", "o">>

\* "foo:bar://x"
SpecOpaque == <<"f", "o", "o", ":", "b", "a", "r", ":", "/", "/", "x">>

\* "a.com:8443"
ACom8443 == <<"a", ".", "c", "o", "m", ":", "8", "4", "4", "3">>

\* "": an empty origin specification
SpecEmpty == <<>>

\* "n.io"
NIo == <<"n", ".", "i", "o">>

\* "foo://o.io:21"
SpecFoo == <<"f", "o", "o", ":", "/", "/", "o", ".", "i", "o", ":", "2", "1">>

\* "ws://o.io"
SpecWs == <<"w", "s", ":", "/", "/", "o", ".", "i", "o">>

\* A byte that is not part of any valid UTF-8 text.
BadByte == "0xFF"

\* "o.io" followed by a byte that makes the body invalid UTF-8
BodyNotUtf8 == OIo \o <<BadByte>>

None == <<>>

Some(v) == <<v>>

Last(s) == s[Len(s)]

(***************************************************************************)
(* Text primitives of the Rust standard library, as the code uses them.    *)
(***************************************************************************)
Digit(d) == <<"0", "1", "2", "3", "4", "5", "6", "7", "8", "9">>[d + 1]

RECURSIVE Decimal(_)
\* format!("{}", port): the decimal digits of a number
Decimal(n) == IF n < 10 THEN <<Digit(n)>> ELSE Decimal(n \div 10) \o <<Digit(n % 10)>>

IsPrefix(p, s) == Len(p) <= Len(s) /\ SubSeq(s, 1, Len(p)) = p

RECURSIVE Contains(_, _)
Contains(s, p) ==
    IF Len(s) < Len(p) THEN FALSE
    ELSE IsPrefix(p, s) \/ Contains(Tail(s), p)

RECURSIVE Intersperse(_, _)
Intersperse(s, to) == IF s = <<>> THEN to ELSE to \o <<Head(s)>> \o Intersperse(Tail(s), to)

RECURSIVE ReplaceScan(_, _, _)
ReplaceScan(s, from, to) ==
    IF Len(s) < Len(from) THEN s
    ELSE IF IsPrefix(from, s)
         THEN to \o ReplaceScan(SubSeq(s, Len(from) + 1, Len(s)), from, to)
         ELSE <<Head(s)>> \o ReplaceScan(Tail(s), from, to)

RECURSIVE ReplaceFirst(_, _, _)
ReplaceFirst(s, from, to) ==
    IF Len(s) < Len(from) THEN s
    ELSE IF IsPrefix(from, s)
         THEN to \o SubSeq(s, Len(from) + 1, Len(s))
         ELSE <<Head(s)>> \o ReplaceFirst(Tail(s), from, to)

\* str::replacen(from, to, 1): the first match only
replace_first(s, from, to) ==
    IF from = <<>> THEN to \o s ELSE ReplaceFirst(s, from, to)

\* str::replace: every non-overlapping match of `from`, left to right
replace(s, from, to) ==
    IF from = <<>> THEN Intersperse(s, to) ELSE ReplaceScan(s, from, to)

Upper == <<"A", "B", "C", "D", "E", "F", "G", "H", "I", "J", "K", "L", "M",
    "N", "O", "P", "Q", "R", "S", "T", "U", "V", "W", "X", "Y", "Z">>

Lower == <<"a", "b", "c", "d", "e", "f", "g", "h", "i", "j", "k", "l", "m",
    "n", "o", "p", "q", "r", "s", "t", "u", "v", "w", "x", "y", "z">>

LowerChar(ch) ==
    IF \E i \in 1..26 : Upper[i] = ch
    THEN Lower[CHOOSE i \in 1..26 : Upper[i] = ch]
    ELSE ch

\* str::to_lowercase
to_lowercase(s) == [i \in 1..Len(s) |-> LowerChar(s[i])]

IsWhitespace(ch) == ch \in {" ", "\t", "\n", "\r"}

RECURSIVE trim_start(_)
\* str::trim_start
trim_start(s) ==
    IF s # <<>> /\ IsWhitespace(Head(s)) THEN trim_start(Tail(s)) ELSE s

RECURSIVE SplitFrom(_, _, _)
SplitFrom(s, sep, cur) ==
    IF s = <<>> THEN <<cur>>
    ELSE IF Head(s) = sep THEN <<cur>> \o SplitFrom(Tail(s), sep, <<>>)
         ELSE SplitFrom(Tail(s), sep, Append(cur, Head(s)))

\* str::split(';'): the segments between separators, empty ones included
split(s, sep) == SplitFrom(s, sep, <<>>)

RECURSIVE join(_, _)
\* [&str]::join(";")
join(segs, sep) ==
    IF segs = <<>> THEN <<>>
    ELSE IF Len(segs) = 1 THEN segs[1]
         ELSE segs[1] \o <<sep>> \o join(Tail(segs), sep)

(***************************************************************************)
(* Target and its parser.                                                  *)
(***************************************************************************)
IsDigit(ch) == ch \in {"0", "1", "2", "3", "4", "5", "6", "7", "8", "9"}

DigitValue(ch) == CHOOSE d \in 0..9 : Digit(d) = ch

RECURSIVE ParseNat(_)
ParseNat(s) == IF s = <<>> THEN 0 ELSE 10 * ParseNat(SubSeq(s, 1, Len(s) - 1)) + DigitValue(Last(s))

\* index of the first occurrence of ch in s, 0 when there is none
IndexOf(s, ch) ==
    IF \E i \in 1..Len(s) : s[i] = ch
    THEN CHOOSE i \in 1..Len(s) : s[i] = ch /\ \A j \in 1..(i - 1) : s[j] # ch
    ELSE 0

\* index of the last occurrence of ch in s, 0 when there is none
LastIndexOf(s, ch) ==
    IF \E i \in 1..Len(s) : s[i] = ch
    THEN CHOOSE i \in 1..Len(s) : s[i] = ch /\ \A j \in (i + 1)..Len(s) : s[j] # ch
    ELSE 0

SchemeName(s) ==
    CASE s = <<"h", "t", "t", "p">> -> "http"
      [] s = <<"h", "t", "t", "p", "s">> -> "https"
      [] s = <<"w", "s">> -> "ws"
      [] s = <<"w", "s", "s">> -> "wss"
      [] s = <<"f", "t", "p">> -> "ftp"
      [] OTHER -> "other"

IsSpecial(scheme) == scheme \in {"http", "https", "ws", "wss", "ftp"}

\* Url::port_or_known_default: the known default port of a scheme
DefaultPort(scheme) ==
    CASE scheme \in {"http", "ws"} -> Some(80)
      [] scheme \in {"https", "wss"} -> Some(443)
      [] scheme = "ftp" -> Some(21)
      [] OTHER -> None

RECURSIVE SkipSlashes(_)
SkipSlashes(s) == IF s # <<>> /\ Head(s) = "/" THEN SkipSlashes(Tail(s)) ELSE s

\* Url::parse of "scheme:[//]host[:port][/path]": the scheme, host_str() and
\* port_or_known_default() that try_from reads.
ParseUrl(s) ==
    LET colon == IndexOf(s, ":")
        scheme == SchemeName(to_lowercase(SubSeq(s, 1, colon - 1)))
        rest == SubSeq(s, colon + 1, Len(s))
        hasAuth == IF IsSpecial(scheme) THEN TRUE ELSE IsPrefix(<<"/", "/">>, rest)
        afterSl == IF IsSpecial(scheme) THEN SkipSlashes(rest) ELSE SubSeq(rest, 3, Len(rest))
        slash == IndexOf(afterSl, "/")
        auth == IF slash = 0 THEN afterSl ELSE SubSeq(afterSl, 1, slash - 1)
        pcolon == LastIndexOf(auth, ":")
        hostTxt == IF pcolon = 0 THEN auth ELSE SubSeq(auth, 1, pcolon - 1)
        portTxt == IF pcolon = 0 THEN <<>> ELSE SubSeq(auth, pcolon + 1, Len(auth))
        portOk == \A i \in 1..Len(portTxt) : IsDigit(portTxt[i])
        portNum == IF portOk THEN ParseNat(portTxt) ELSE 0
    IN  IF colon <= 1 THEN [ok |-> FALSE]
        ELSE IF ~hasAuth THEN [ok |-> TRUE, scheme |-> scheme, host |-> None, port |-> DefaultPort(scheme)]
        ELSE IF ~portOk \/ portNum > 65535 THEN [ok |-> FALSE]
        ELSE IF hostTxt = <<>> /\ IsSpecial(scheme) THEN [ok |-> FALSE]
        ELSE [ok |-> TRUE, scheme |-> scheme,
              host |-> Some(IF IsSpecial(scheme) THEN to_lowercase(hostTxt) ELSE hostTxt),
              port |-> IF portTxt = <<>> THEN DefaultPort(scheme) ELSE Some(portNum)]

\* impl TryFrom<&str> for Target
try_from(s) ==
    LET s1 == IF Contains(s, SchemeSep) THEN s ELSE HttpsPrefix \o s
        url == ParseUrl(s1)
    IN  IF ~url.ok THEN [ok |-> FALSE]
        ELSE IF url.host = None THEN [ok |-> FALSE]
        ELSE IF url.port = None THEN [ok |-> FALSE]
        ELSE [ok |-> TRUE,
              target |-> [scheme |-> url.scheme, host |-> url.host[1], port |-> url.port[1]]]

\* the port written whatever it is
host_with_port_explicit(t) == t.host \o <<":">> \o Decimal(t.port)

\* Target::host_with_port
host_with_port(t) ==
    IF (t.scheme = "http" /\ t.port = 80) \/ (t.scheme = "https" /\ t.port = 443)
    THEN t.host
    ELSE t.host \o <<":">> \o Decimal(t.port)

(***************************************************************************)
(* The Domain Table: HashMap<&str, Target>, kept as the sequence of its    *)
(* entries in the order the map iterates them.                             *)
(***************************************************************************)
\* Forward::new: every origin specification of the configuration parsed
new(domain_name) ==
    IF \A e \in domain_name : try_from(e.v).ok
    THEN [ok |-> TRUE, domain |-> {[k |-> e.k, v |-> try_from(e.v).target] : e \in domain_name}]
    ELSE [ok |-> FALSE]

\* the orders in which a HashMap holding `entries` can iterate them
IterationOrders(entries) ==
    {s \in [1..Cardinality(entries) -> entries] : \A i, j \in DOMAIN s : s[i] = s[j] => i = j}

\* a lookup that falls back on the first entry when the key is missing
get_or_first(dom, key) ==
    IF \E i \in DOMAIN dom : dom[i].k = key
    THEN Some(dom[CHOOSE i \in DOMAIN dom : dom[i].k = key].v)
    ELSE Some(dom[1].v)

\* HashMap::get
get(dom, key) ==
    IF \E i \in DOMAIN dom : dom[i].k = key
    THEN Some(dom[CHOOSE i \in DOMAIN dom : dom[i].k = key].v)
    ELSE None

RECURSIVE replace_domain_by_host(_, _)
\* the replace loop looking for the host of each Target, whatever its port
replace_domain_by_host(text, dom) ==
    IF dom = <<>> THEN text
    ELSE replace_domain_by_host(replace(text, Head(dom).v.host, Head(dom).k), Tail(dom))

RECURSIVE replace_domain_longest_first(_, _)
\* the replace loop taking the entries by the length of their
\* host_with_port, the longest first, whatever order the table iterates in
replace_domain_longest_first(text, dom) ==
    IF dom = <<>> THEN text
    ELSE LET i == CHOOSE i \in DOMAIN dom :
                    \A j \in DOMAIN dom :
                        Len(host_with_port(dom[i].v)) >= Len(host_with_port(dom[j].v))
             rest == [j \in 1..(Len(dom) - 1) |-> IF j < i THEN dom[j] ELSE dom[j + 1]]
         IN  replace_domain_longest_first(
                 replace(text, host_with_port(dom[i].v), dom[i].k), rest)

RECURSIVE replace_domain(_, _)
\* for (k, v) in &self.domain { text = text.replace(&v.host_with_port(), k) }
replace_domain(text, dom) ==
    IF dom = <<>> THEN text
    ELSE replace_domain(replace(text, host_with_port(Head(dom).v), Head(dom).k), Tail(dom))

(***************************************************************************)
(* Responses.  A body is the text it carries (data), the compression       *)
(* layers around it, outermost first (enc), and whether reading it fails   *)
(* (broken: a decoder fed bytes that are not in its format).               *)
(***************************************************************************)
OctetStream == [essence |-> "application/octet-stream", params |-> ""]

TextPlain == [essence |-> "text/plain", params |-> "charset=utf-8"]

\* Body::empty
EmptyBody == [enc |-> <<>>, data |-> <<>>, broken |-> FALSE, mime |-> OctetStream]

BrokenBody == [enc |-> <<>>, data |-> <<>>, broken |-> TRUE, mime |-> OctetStream]

\* Body::from(String)
StringBody(text) == [enc |-> <<>>, data |-> text, broken |-> FALSE, mime |-> TextPlain]

\* Response::header
header(resp, name) == resp.headers[name]

\* Response::insert_header: the header's values are replaced
insert_header(resp, name, values) == [resp EXCEPT !.headers[name] = values]

\* a set_body that always takes the content-type header from the new body
set_body_typed(resp, body) ==
    insert_header([resp EXCEPT !.body = body], "content-type", <<body.mime>>)

\* Response::set_body / replace_body: the content-type header is taken from
\* the new body only when the response has none
set_body(resp, body) ==
    LET r == [resp EXCEPT !.body = body]
    IN  IF header(r, "content-type") = <<>>
        THEN insert_header(r, "content-type", <<body.mime>>)
        ELSE r

\* Response::take_body: the body is replaced by the empty body
take_body(resp) == [resp |-> set_body(resp, EmptyBody), body |-> resp.body]

\* a compressed stream never is valid UTF-8 (gzip starts 0x1f 0x8b)
IsUtf8(body) ==
    /\ ~body.broken
    /\ body.enc = <<>>
    /\ \A i \in 1..Len(body.data) : body.data[i] # BadByte

\* Response::body_string: takes the body, then reads it as UTF-8
body_string(resp) ==
    LET t == take_body(resp)
    IN  [resp |-> t.resp,
         result |-> IF IsUtf8(t.body) THEN Some(t.body.data) ELSE None]

\* GzipDecoder / BrotliDecoder / DeflateDecoder wrapped around a body
Decoder(codec, body) ==
    IF ~body.broken /\ body.enc # <<>> /\ Head(body.enc) = codec
    THEN [body EXCEPT !.enc = Tail(body.enc)]
    ELSE BrokenBody

\* GzipEncoder / BrotliEncoder / DeflateEncoder wrapped around a body
Encoder(codec, body) ==
    IF body.broken THEN BrokenBody
    ELSE [body EXCEPT !.enc = <<codec>> \o body.enc]

\* Coder::set_body
Coder_set_body(resp, coder) == set_body(resp, [coder EXCEPT !.mime = OctetStream])

Handled == {"gzip", "br", "deflate"}

\* Coder::code with the arms of `match self` exchanged
code_swapped(self, resp) ==
    LET h == header(resp, "content-encoding")
    IN  IF h = None THEN resp
        ELSE IF Last(h) \in Handled
             THEN LET t == take_body(resp)
                  IN  Coder_set_body(t.resp,
                          IF self = "En" THEN Decoder(Last(h), t.body)
                          ELSE Encoder(Last(h), t.body))
             ELSE resp

\* Coder::code
code(self, resp) ==
    LET h == header(resp, "content-encoding")
    IN  IF h = None THEN resp
        ELSE IF Last(h) \in Handled
             THEN LET t == take_body(resp)
                  IN  Coder_set_body(t.resp,
                          IF self = "En" THEN Encoder(Last(h), t.body)
                          ELSE Decoder(Last(h), t.body))
             ELSE resp

\* Forward::request, the location header
rewrite_location(resp, dom) ==
    LET h == header(resp, "location")
    IN  IF h = None THEN resp
        ELSE insert_header(resp, "location", <<replace_domain(Last(h), dom)>>)

\* Forward::request, the referer header
rewrite_referer(resp, dom) ==
    LET h == header(resp, "referer")
    IN  IF h = None THEN resp
        ELSE insert_header(resp, "referer", <<replace_domain(Last(h), dom)>>)

\* the filter closure of Forward::request: the segments kept
keep_segment(i) ==
    LET t == trim_start(i)
    IN  ~(Len(t) > 7 /\ to_lowercase(SubSeq(t, 1, 7)) = DomainEq)

\* the map closure of Forward::request: one set-cookie value
filter_cookie(i) == join(SelectSeq(split(i, ";"), keep_segment), ";")

\* Forward::request, the set-cookie header
rewrite_set_cookie(resp) ==
    LET h == header(resp, "set-cookie")
    IN  IF h = None THEN resp
        ELSE insert_header(resp, "set-cookie", [n \in DOMAIN h |-> filter_cookie(h[n])])

Rewritable == {"text/html", "text/javascript", "application/json", "application/manifest+json"}

\* Response::content_type: the parsed content-type header
content_type(resp) ==
    LET h == header(resp, "content-type")
    IN  IF h = None THEN None ELSE Some(Last(h))

\* the body rewritten whatever the content-type is
rewrite_body_any_type(resp, dom) ==
    LET r == body_string(resp)
    IN  IF r.result # None
        THEN set_body(r.resp, StringBody(replace_domain(r.result[1], dom)))
        ELSE r.resp

\* Forward::request, "replace domain"
rewrite_body(resp, dom) ==
    LET ct == content_type(resp)
    IN  IF ct = None THEN resp
        ELSE IF ct[1].essence \in Rewritable
             THEN LET r == body_string(resp)
                  IN  IF r.result # None
                      THEN set_body(r.resp, StringBody(replace_domain(r.result[1], dom)))
                      ELSE r.resp
             ELSE resp

\* http_error
http_error(error) == [ok |-> FALSE, status |-> 500, msg |-> error]

\* an upstream failure reported as 502 Bad Gateway
from_error_bad_gateway(error) == [ok |-> FALSE, status |-> 502, msg |-> error]

\* the conversion of ? into http_types::Error: status 500
from_error(error) == [ok |-> FALSE, status |-> 500, msg |-> error]

(***************************************************************************)
(* Bounds and inputs.                                                      *)
(***************************************************************************)
\* client connections the listener accepts
MaxConns == 2

\* requests served on one client connection (keep-alive)
MaxReqs == 2

Conns == 1..MaxConns

\* CONFIG.domain_name: the configurations the server is started with
ConfigA == {[k |-> PubExample, v |-> SpecOrigin]}

ConfigB == {[k |-> PIo, v |-> SpecHttp], [k |-> QIo, v |-> SpecBare]}

ConfigC == {[k |-> WIo, v |-> SpecWs], [k |-> NIo, v |-> SpecFoo]}

Configs == {ConfigA, ConfigB, ConfigC}

\* CONFIG.socks5_server
Socks5Servers == {None, Some(RelayAddr)}

DomainHost(name) == [kind |-> "Domain", name |-> name]

IpHost(name) == [kind |-> "Ipv4", name |-> name]

\* a request as async_h1::accept hands it to serve
ClientRequest(host) ==
    [method |-> IF host.name = PubExample THEN "POST" ELSE "GET",
     host |-> host.name,
     url |-> [scheme |-> "http", host |-> host, port |-> 80, path |-> <<"/", "x">>,
              query |-> <<"q", "=", "1">>],
     headers |-> [accept_encoding |-> "gzip", cookie |-> "id=1"],
     body |-> IF host.name = PubExample THEN <<"a", "=", "b">> ELSE <<>>]

RequestHosts ==
    {DomainHost(PubExample), DomainHost(PIo), DomainHost(QIo), DomainHost(WIo),
     DomainHost(NIo), DomainHost(OtherExample), IpHost(IpLiteral)}

Requests == {ClientRequest(h) : h \in RequestHosts}

Mime(essence) == [essence |-> essence, params |-> ""]

TextHtml == [essence |-> "text/html", params |-> "charset=utf-8"]

ContentTypes ==
    {None, Some(TextHtml), Some(Mime("text/javascript")), Some(Mime("application/json")),
     Some(Mime("application/manifest+json")), Some(Mime("image/png"))}

ContentEncodings == {None, Some("gzip"), Some("br"), Some("deflate"), Some("identity"), Some("zstd")}

\* the encodings an origin really compresses with
Codecs == {"gzip", "br", "deflate", "zstd"}

BodyTexts == {BodyJson, BodyTwo, BodyPlain, BodyNotUtf8}

Statuses == {200, 304}

NoHeaders == [location |-> None, referer |-> None, cookie |-> None]

HeaderSets ==
    {NoHeaders,
     [location |-> Some(LocOrigin), referer |-> None, cookie |-> <<CookieDomain>>],
     [location |-> Some(LocTwice), referer |-> Some(RefOrigin), cookie |-> <<CookieUpper, CookiePlain>>],
     [location |-> Some(LocRelative), referer |-> None, cookie |-> <<CookieEmptyDomain>>]}

\* a response as async_h1::connect returns it; wellFormed: the body really is
\* compressed as content-encoding declares
OriginResponse(status, hs, ce, ct, text, wellFormed) ==
    [status |-> status,
     headers |-> [n \in {"location", "referer", "set-cookie", "content-encoding",
                         "content-type", "etag"} |->
                    CASE n = "location" -> hs.location
                      [] n = "referer" -> hs.referer
                      [] n = "set-cookie" -> hs.cookie
                      [] n = "content-encoding" -> ce
                      [] n = "content-type" -> ct
                      [] n = "etag" -> Some(<<"v", "1">>)],
     body |-> [enc |-> IF wellFormed /\ ce # None /\ ce[1] \in Codecs THEN ce ELSE <<>>,
               data |-> text, broken |-> FALSE, mime |-> OctetStream]]

Responses ==
    {OriginResponse(st, hs, ce, ct, text, wf) :
        st \in Statuses, hs \in HeaderSets, ce \in ContentEncodings,
        ct \in ContentTypes, text \in BodyTexts, wf \in BOOLEAN}

\* the responses the origins give when several connections are served at once
FewResponses ==
    {OriginResponse(200, [location |-> Some(LocOrigin), referer |-> None, cookie |-> <<CookieDomain>>], Some("gzip"), Some(Mime("application/json")), BodyJson, TRUE),
     OriginResponse(304, NoHeaders, None, None, BodyPlain, TRUE),
     OriginResponse(200, NoHeaders, None, Some(TextHtml), BodyTwo, TRUE)}

(***************************************************************************)
(* State.                                                                  *)
(***************************************************************************)
VARIABLES
    call,           \* the call of a function of Target or Forward being
                    \* evaluated apart from the server, with its result
    domain,         \* Forward.domain, in iteration order
    socks5_server,  \* CONFIG.socks5_server
    listening,      \* the accept loop of run is running
    task,           \* per client connection: the task spawned for it
    streams         \* upstream connections opened so far: who opened each, and
                    \* how many HTTP/1 exchanges ran over it

vars == <<call, domain, socks5_server, listening, task, streams>>

\* no function is being evaluated apart from the server
NoCall == [fn |-> "none"]

NoLog == <<>>

Op(op, arg) == [op |-> op, arg |-> arg]

\* a task that serves no request
IdleTask(conn, served) ==
    [conn |-> conn,        \* "none", "open", "closed", "failed"
     served |-> served,    \* requests forward has answered on the connection
     pc |-> "idle",        \* position in forward / request
     req |-> None,         \* the request forward was called with
     fused |-> None,       \* the request fuse_request returned
     target |-> None,      \* the Target the Domain Table gave
     stream |-> 0,         \* the upstream stream, an index of streams
     tls |-> None,         \* the host the TLS handshake on the stream was done with
     resp |-> None,        \* resp of Forward::request
     origin |-> None,      \* the response as async_h1::connect returned it
     result |-> None,      \* what forward returned
     log |-> NoLog]        \* the steps forward took for the request

Init ==
    /\ \E cfg \in Configs :
        /\ new(cfg).ok
        /\ domain \in IterationOrders(new(cfg).domain)
    /\ socks5_server \in Socks5Servers
    /\ call = NoCall
    /\ listening = TRUE
    /\ task = [c \in Conns |-> IdleTask("none", 0)]
    /\ streams = <<>>

Set(c, t) == task' = [task EXCEPT ![c] = t]

Logged(t, op, arg) == Append(t.log, Op(op, arg))

\* forward returns Err
Fail(t, step, err) ==
    [t EXCEPT !.pc = "returned", !.result = Some(err), !.resp = None,
              !.log = Logged(t, step, "err")]

(***************************************************************************)
(* run: the accept loop and the task of each client connection.            *)
(***************************************************************************)
\* listener.accept() gives a connection and Task::spawn starts its task
accept(c, maxConns) ==
    /\ listening
    /\ c <= maxConns
    /\ task[c].conn = "none"
    /\ \A d \in Conns : d < c => task[d].conn # "none"
    /\ Set(c, IdleTask("open", 0))
    /\ UNCHANGED <<call, domain, socks5_server, listening, streams>>

\* listener.accept() fails: `?` leaves the loop, smol::run returns and the
\* detached tasks are never polled again
accept_error ==
    /\ listening
    /\ listening' = FALSE
    /\ task' = [c \in Conns |->
                 IdleTask(IF task[c].conn = "open" THEN "dropped" ELSE task[c].conn,
                          task[c].served)]
    /\ UNCHANGED <<call, domain, socks5_server, streams>>

\* async_h1::accept decodes a request and calls serve(req)
receive(c, requests, maxReqs) ==
    /\ listening
    /\ task[c].conn = "open"
    /\ task[c].pc = "idle"
    /\ task[c].served < maxReqs
    /\ \E rq \in requests :
        Set(c, [IdleTask("open", task[c].served) EXCEPT !.pc = "forward", !.req = Some(rq)])
    /\ UNCHANGED <<call, domain, socks5_server, listening, streams>>

\* the client closes the connection: async_h1::accept returns Ok
close(c) ==
    /\ listening
    /\ task[c].conn = "open"
    /\ task[c].pc = "idle"
    /\ Set(c, IdleTask("closed", task[c].served))
    /\ UNCHANGED <<call, domain, socks5_server, listening, streams>>

\* async_h1::accept fails decoding a request: "Connection error" is logged
connection_error(c) ==
    /\ listening
    /\ task[c].conn = "open"
    /\ task[c].pc = "idle"
    /\ Set(c, IdleTask("failed", task[c].served))
    /\ UNCHANGED <<call, domain, socks5_server, listening, streams>>

(***************************************************************************)
(* Forward::forward and Forward::request, one action per await or step.    *)
(***************************************************************************)
\* Url::domain
url_domain(url) == IF url.host.kind = "Domain" THEN Some(url.host.name) ELSE None

\* a lookup that takes the entry out of the table, as HashMap::remove does
forward_remove(c) ==
    LET t == task[c]
        d == url_domain(t.req[1].url)
    IN  /\ listening
        /\ t.pc = "forward"
        /\ IF d = None
           THEN /\ Set(c, Fail(t, "forward", http_error("missing domain")))
                /\ UNCHANGED domain
           ELSE IF get(domain, d[1]) = None
                THEN /\ Set(c, Fail(t, "forward", http_error("invalid domain, check config file")))
                     /\ UNCHANGED domain
                ELSE /\ Set(c, [t EXCEPT !.pc = "address", !.target = get(domain, d[1]),
                                         !.log = Logged(t, "forward", "")])
                     /\ domain' = SelectSeq(domain, LAMBDA e : e.k # d[1])
        /\ UNCHANGED <<call, socks5_server, listening, streams>>

\* Forward::forward
forward(c) ==
    LET t == task[c]
        d == url_domain(t.req[1].url)
    IN  /\ listening
        /\ t.pc = "forward"
        /\ IF d = None
           THEN Set(c, Fail(t, "forward", http_error("missing domain")))
           ELSE IF get(domain, d[1]) = None
                THEN Set(c, Fail(t, "forward", http_error("invalid domain, check config file")))
                ELSE Set(c, [t EXCEPT !.pc = "address", !.target = get(domain, d[1]),
                                      !.log = Logged(t, "forward", "")])
        /\ UNCHANGED <<call, domain, socks5_server, listening, streams>>

\* Target::address, awaited by Forward::request
address(c) ==
    LET t == task[c]
    IN  /\ listening
        /\ t.pc = "address"
        /\ \/ Set(c, [t EXCEPT !.pc = "fuse_request", !.log = Logged(t, "address", "")])
           \/ Set(c, Fail(t, "address", http_error("invalid target")))
        /\ UNCHANGED <<call, domain, socks5_server, listening, streams>>

IsIpLiteral(name) == \A i \in 1..Len(name) : IsDigit(name[i]) \/ name[i] = "."

\* a retargeting that builds the request anew from the target
fuse_anew(target, rq) ==
    [rq EXCEPT !.host = target.host,
               !.url = [scheme |-> target.scheme,
                        host |-> IF IsIpLiteral(target.host) THEN IpHost(target.host)
                                 ELSE DomainHost(target.host),
                        port |-> target.port, path |-> <<"/">>, query |-> <<>>],
               !.headers = [accept_encoding |-> "identity", cookie |-> ""]]

\* Target::fuse_request: the Host header and the URL's scheme, host and port
fuse(target, rq) ==
    [rq EXCEPT !.host = target.host,
               !.url.scheme = target.scheme,
               !.url.host = IF IsIpLiteral(target.host) THEN IpHost(target.host)
                            ELSE DomainHost(target.host),
               !.url.port = target.port]

\* Target::fuse_request as Forward::request calls it; Url::set_scheme may
\* refuse to turn an http URL into one of a scheme that is not special
fuse_request(c) ==
    LET t == task[c]
    IN  /\ listening
        /\ t.pc = "fuse_request"
        /\ \/ Set(c, [t EXCEPT !.pc = "connect", !.fused = Some(fuse(t.target[1], t.req[1])),
                               !.log = Logged(t, "fuse_request", "")])
           \/ /\ ~IsSpecial(t.target[1].scheme)
              /\ Set(c, Fail(t, "fuse_request", http_error("set scheme error")))
        /\ UNCHANGED <<call, domain, socks5_server, listening, streams>>

\* what a connect is given as its destination: the relay is given the
\* target's host as a name, (host.to_string(), target.port()); the direct
\* connect is given addr, the socket address Target::address resolved
Destination(target, via) ==
    [kind |-> IF via = "socks5" THEN "name" ELSE "addr",
     host |-> target.host,
     port |-> target.port]

\* a new upstream stream, opened for the request task t serves
Opened(t, c, via) ==
    [conn |-> c, req |-> t.served + 1, via |-> via, exchanges |-> 0,
     to |-> Destination(t.target[1], via)]

\* a pooled connect: an upstream stream opened before is used again
connect_stream_pooled(t, c, via) ==
    IF streams # <<>> THEN [id |-> 1, streams |-> streams]
    ELSE [id |-> Len(streams) + 1, streams |-> Append(streams, Opened(t, c, via))]

\* the stream a connect gives: always a fresh one
connect_stream(t, c, via) == [id |-> Len(streams) + 1, streams |-> Append(streams, Opened(t, c, via))]

\* smol::unblock!(server.to_socket_addrs()...): the relay's address
relay_address(c) ==
    LET t == task[c]
    IN  /\ listening
        /\ t.pc = "connect"
        /\ socks5_server # None
        /\ \/ Set(c, [t EXCEPT !.pc = "socks5", !.log = Logged(t, "relay_address", "")])
           \/ Set(c, Fail(t, "relay_address", from_error("invalid host")))
        /\ UNCHANGED <<call, domain, socks5_server, listening, streams>>

\* socks5::connect_without_auth(server, (host, port))
socks5_connect(c) ==
    LET t == task[c]
        s == connect_stream(t, c, "socks5")
    IN  /\ listening
        /\ t.pc = "socks5"
        /\ \/ /\ Set(c, [t EXCEPT !.pc = "scheme", !.stream = s.id,
                                  !.log = Logged(t, "socks5_connect", "")])
              /\ streams' = s.streams
           \/ /\ Set(c, Fail(t, "socks5_connect", from_error("socks5 error")))
              /\ UNCHANGED streams
        /\ UNCHANGED <<call, domain, socks5_server, listening>>

\* Async::<TcpStream>::connect(addr)
tcp_connect(c) ==
    LET t == task[c]
        s == connect_stream(t, c, "tcp")
    IN  /\ listening
        /\ t.pc = "connect"
        /\ socks5_server = None
        /\ \/ /\ Set(c, [t EXCEPT !.pc = "scheme", !.stream = s.id,
                                  !.log = Logged(t, "tcp_connect", "")])
              /\ streams' = s.streams
           \/ /\ Set(c, Fail(t, "tcp_connect", from_error("connection refused")))
              /\ UNCHANGED streams
        /\ UNCHANGED <<call, domain, socks5_server, listening>>

\* async_native_tls::connect(host, stream), the "https" arm
tls_connect(c) ==
    LET t == task[c]
    IN  /\ listening
        /\ t.pc = "scheme"
        /\ t.target[1].scheme = "https"
        /\ \/ Set(c, [t EXCEPT !.pc = "h1", !.tls = Some(t.target[1].host), !.log = Logged(t, "tls_connect", "")])
           \/ Set(c, Fail(t, "tls_connect", from_error("tls error")))
        /\ UNCHANGED <<call, domain, socks5_server, listening, streams>>

\* the last arm of the match on target.scheme()
unsupported_scheme(c) ==
    LET t == task[c]
    IN  /\ listening
        /\ t.pc = "scheme"
        /\ t.target[1].scheme \notin {"http", "https"}
        /\ Set(c, Fail(t, "scheme", http_error("unsupported scheme")))
        /\ UNCHANGED <<call, domain, socks5_server, listening, streams>>

\* the exchange run over the stream as connected, whatever the scheme
h1_connect_any_scheme(c, responses) ==
    LET t == task[c]
    IN  /\ listening
        /\ t.pc \in {"h1", "scheme"}
        /\ streams' = [streams EXCEPT ![t.stream].exchanges = @ + 1]
        /\ \/ \E r \in responses :
                Set(c, [t EXCEPT !.pc = "headers", !.resp = Some(r), !.origin = Some(r),
                                 !.log = Logged(t, "h1_connect", "")])
           \/ Set(c, Fail(t, "h1_connect", from_error("h1 error")))
        /\ UNCHANGED <<call, domain, socks5_server, listening>>

\* async_h1::connect(stream, req): one exchange over the request's stream
h1_connect(c, responses) ==
    LET t == task[c]
    IN  /\ listening
        /\ \/ t.pc = "h1"
           \/ t.pc = "scheme" /\ t.target[1].scheme = "http"
        /\ streams' = [streams EXCEPT ![t.stream].exchanges = @ + 1]
        /\ \/ \E r \in responses :
                Set(c, [t EXCEPT !.pc = "headers", !.resp = Some(r), !.origin = Some(r),
                                 !.log = Logged(t, "h1_connect", "")])
           \/ Set(c, Fail(t, "h1_connect", from_error("h1 error")))
        /\ UNCHANGED <<call, domain, socks5_server, listening>>

\* what the header rewriting appends to the log: the headers it rewrote
header_log(resp) ==
    (IF header(resp, "location") # None THEN <<Op("location", "")>> ELSE <<>>)
    \o (IF header(resp, "referer") # None THEN <<Op("referer", "")>> ELSE <<>>)
    \o (IF header(resp, "set-cookie") # None THEN <<Op("set-cookie", "")>> ELSE <<>>)

\* Forward::request, from `if let Some(location)` to the set-cookie header
rewrite_headers(c) ==
    LET t == task[c]
        r == rewrite_set_cookie(rewrite_referer(rewrite_location(t.resp[1], domain), domain))
    IN  /\ listening
        /\ t.pc = "headers"
        /\ Set(c, [t EXCEPT !.pc = "status", !.resp = Some(r),
                            !.log = t.log \o header_log(t.resp[1])])
        /\ UNCHANGED <<call, domain, socks5_server, listening, streams>>

\* forward returns Ok(resp)
Return(t) ==
    [t EXCEPT !.pc = "returned",
              !.result = Some([ok |-> TRUE, status |-> t.resp[1].status, msg |-> ""])]

\* if resp.status() == StatusCode::NotModified { return Ok(resp) }
not_modified(c) ==
    LET t == task[c]
    IN  /\ listening
        /\ t.pc = "status"
        /\ t.resp[1].status = 304
        /\ Set(c, Return(t))
        /\ UNCHANGED <<call, domain, socks5_server, listening, streams>>

\* what Coder::code appends to the log for this response
code_log(self, resp) ==
    LET h == header(resp, "content-encoding")
    IN  IF h = None THEN <<>>
        ELSE IF Last(h) \in Handled
             THEN <<Op(IF self = "En" THEN "encoder" ELSE "decoder", Last(h))>>
             ELSE <<Op("error", "unhandled encoding")>>

\* the decoder applied whatever the status is
decode_any_status(c) ==
    LET t == task[c]
    IN  /\ listening
        /\ t.pc = "status"
        /\ Set(c, [t EXCEPT !.pc = "body", !.resp = Some(code("De", t.resp[1])),
                            !.log = t.log \o code_log("De", t.resp[1])])
        /\ UNCHANGED <<call, domain, socks5_server, listening, streams>>

\* Coder::De.code(&mut resp)
decode(c) ==
    LET t == task[c]
    IN  /\ listening
        /\ t.pc = "status"
        /\ t.resp[1].status # 304
        /\ Set(c, [t EXCEPT !.pc = "body", !.resp = Some(code("De", t.resp[1])),
                            !.log = t.log \o code_log("De", t.resp[1])])
        /\ UNCHANGED <<call, domain, socks5_server, listening, streams>>

\* what the "replace domain" block appends to the log
body_log(resp) ==
    LET ct == content_type(resp)
    IN  IF ct = None THEN <<>>
        ELSE IF ct[1].essence \notin Rewritable THEN <<>>
        ELSE IF body_string(resp).result # None THEN <<Op("replace", "")>>
        ELSE <<Op("error", "can not convert body to utf-8 string")>>

\* the "replace domain" block of Forward::request
replace_body(c) ==
    LET t == task[c]
    IN  /\ listening
        /\ t.pc = "body"
        /\ Set(c, [t EXCEPT !.pc = "encode", !.resp = Some(rewrite_body(t.resp[1], domain)),
                            !.log = t.log \o body_log(t.resp[1])])
        /\ UNCHANGED <<call, domain, socks5_server, listening, streams>>

\* Coder::En.code(&mut resp); Ok(resp)
encode(c) ==
    LET t == task[c]
        r == [t EXCEPT !.resp = Some(code("En", t.resp[1])),
                       !.log = t.log \o code_log("En", t.resp[1])]
    IN  /\ listening
        /\ t.pc = "encode"
        /\ Set(c, Return(r))
        /\ UNCHANGED <<call, domain, socks5_server, listening, streams>>

\* async_h1::accept writes the response forward returned and reads on; a body
\* that cannot be read fails the connection
respond(c) ==
    LET t == task[c]
    IN  /\ listening
        /\ t.pc = "returned"
        /\ t.result[1].ok
        /\ IF t.resp[1].body.broken
           THEN Set(c, IdleTask("failed", t.served + 1))
           ELSE Set(c, IdleTask("open", t.served + 1))
        /\ UNCHANGED <<call, domain, socks5_server, listening, streams>>

\* the Err of forward leaving the accept loop as an Err of accept does
respond_error_propagates(c) ==
    LET t == task[c]
    IN  /\ listening
        /\ t.pc = "returned"
        /\ ~t.result[1].ok
        /\ listening' = FALSE
        /\ task' = [d \in Conns |->
                     IF d = c THEN IdleTask("failed", t.served + 1)
                     ELSE IdleTask(IF task[d].conn = "open" THEN "dropped" ELSE task[d].conn,
                                   task[d].served)]
        /\ UNCHANGED <<call, domain, socks5_server, streams>>

\* `endpoint(req).await?` in async_h1::accept: an Err of forward ends the
\* connection's task, which logs "Connection error"
respond_error(c) ==
    LET t == task[c]
    IN  /\ listening
        /\ t.pc = "returned"
        /\ ~t.result[1].ok
        /\ Set(c, IdleTask("failed", t.served + 1))
        /\ UNCHANGED <<call, domain, socks5_server, listening, streams>>

Pipeline(c) ==
    \/ forward(c)
    \/ address(c)
    \/ fuse_request(c)
    \/ relay_address(c)
    \/ socks5_connect(c)
    \/ tcp_connect(c)
    \/ tls_connect(c)
    \/ unsupported_scheme(c)
    \/ rewrite_headers(c)
    \/ not_modified(c)
    \/ decode(c)
    \/ replace_body(c)
    \/ encode(c)
    \/ respond(c)
    \/ respond_error(c)
    \/ close(c)
    \/ connection_error(c)

\* the server with several client connections served at once
Next ==
    \/ accept_error
    \/ \E c \in Conns :
        \/ accept(c, MaxConns)
        \/ receive(c, Requests, MaxReqs)
        \/ h1_connect(c, FewResponses)
        \/ Pipeline(c)

Spec == Init /\ [][Next]_vars

\* one client connection, its requests answered by every origin response
NextOne ==
    \/ accept_error
    \/ \E c \in Conns :
        \/ accept(c, 1)
        \/ receive(c, Requests, MaxReqs)
        \/ h1_connect(c, Responses)
        \/ Pipeline(c)

SpecOne == Init /\ [][NextOne]_vars

(***************************************************************************)
(* Target and Forward apart from the server: Forward::new applied to a     *)
(* configuration, Target::try_from applied to an origin specification,     *)
(* host_with_port to the Target it gave, and the replace loop of           *)
(* Forward::request applied to a text, once and again.                     *)
(***************************************************************************)
\* the origin specifications Target::try_from is applied to
Specs ==
    {SpecACom443, SpecACom8443, SpecAComBare, SpecAComHttp, SpecAComHttp80,
     SpecAComHttp8080, SpecAComHttps80, SpecAComHttp443, SpecUpper, SpecNoHost,
     SpecEmpty, SpecPort0, SpecPortMax, SpecPortBig, SpecPortText, SpecFooNoPort,
     SpecOpaque, SpecOrigin, SpecHttp, SpecBare, SpecWs, SpecFoo}

\* a configuration with an origin specification that has no host
ConfigNoHost == {[k |-> PIo, v |-> SpecHttp], [k |-> QIo, v |-> SpecNoHost]}

\* a configuration whose only origin listens on port 0
ConfigPort0 == {[k |-> PIo, v |-> SpecPort0]}

AllConfigs == Configs \cup {ConfigNoHost, ConfigPort0}

\* the texts the replace loop is applied to
RewriteTexts ==
    {BodyTwo, BodyPlain, BodyJson, LocOrigin, LocTwice, LocRelative, RefOrigin,
     PIo, OIo, OriginInternal, <<>>}

\* the call of fn with arg that gave out, applied `times` times over
Call(fn, arg, out, times) == [fn |-> fn, arg |-> arg, out |-> out, times |-> times]

\* before FORWARD is built: no table, no listener
InitFn ==
    /\ call = NoCall
    /\ domain = <<>>
    /\ socks5_server = None
    /\ listening = FALSE
    /\ task = [c \in Conns |-> IdleTask("none", 0)]
    /\ streams = <<>>

\* Forward::new(&CONFIG.domain_name): the table, or the Err of a try_into
Forward_new(cfg) ==
    /\ ~listening
    /\ domain = <<>>
    /\ call = NoCall
    /\ IF new(cfg).ok
       THEN /\ domain' \in IterationOrders(new(cfg).domain)
            /\ call' = Call("new", cfg, "Ok", 1)
       ELSE /\ domain' = <<>>
            /\ call' = Call("new", cfg, "Err", 1)
    /\ UNCHANGED <<socks5_server, listening, task, streams>>

\* Target::try_from(s)
Target_try_from(s) ==
    /\ ~listening
    /\ call' = Call("try_from", s, try_from(s), 1)
    /\ UNCHANGED <<domain, socks5_server, listening, task, streams>>

\* target.host_with_port() of the Target try_from returned
Target_host_with_port ==
    /\ ~listening
    /\ call.fn = "try_from"
    /\ call.out.ok
    /\ call' = Call("host_with_port", call.out.target, host_with_port(call.out.target), 1)
    /\ UNCHANGED <<domain, socks5_server, listening, task, streams>>

\* the replace loop of Forward::request over the table, applied to a text
rewrite(text) ==
    /\ ~listening
    /\ domain # <<>>
    /\ call' = Call("replace_domain", text, replace_domain(text, domain), 1)
    /\ UNCHANGED <<domain, socks5_server, listening, task, streams>>

\* the replace loop applied to what it returned
rewrite_again ==
    /\ ~listening
    /\ call.fn = "replace_domain"
    /\ call.times = 1
    /\ call' = Call("replace_domain", call.arg, replace_domain(call.out, domain), 2)
    /\ UNCHANGED <<domain, socks5_server, listening, task, streams>>

NextFn ==
    \/ \E cfg \in AllConfigs : Forward_new(cfg)
    \/ \E s \in Specs : Target_try_from(s)
    \/ Target_host_with_port
    \/ \E text \in RewriteTexts : rewrite(text)
    \/ rewrite_again

SpecFn == InitFn /\ [][NextFn]_vars

(***************************************************************************)
(* Properties.                                                             *)
(***************************************************************************)
Ops(t) == {t.log[i].op : i \in DOMAIN t.log}

Returned(t) == t.pc = "returned"

ReturnedOk(t) == t.pc = "returned" /\ t.result[1].ok

ReturnedErr(t) == t.pc = "returned" /\ ~t.result[1].ok

\* the request's URL domain is no key of the Domain Table
Unmapped(rq) ==
    \/ rq.url.host.kind # "Domain"
    \/ \A i \in DOMAIN domain : domain[i].k # rq.url.host.name

\* the streams opened for the request task c serves
StreamsOf(c) ==
    {i \in DOMAIN streams : streams[i].conn = c /\ streams[i].req = task[c].served + 1}

\* C1: a request whose URL domain is not a key of the Domain Table is never
\* past the lookup of forward: it is either waiting for it or has been
\* answered by an error of status 500, its only step being the failed
\* lookup, with no target, no retargeted request and no upstream stream.
C1_UnknownDomain ==
    \A c \in Conns :
        LET t == task[c]
        IN  (t.req # None /\ Unmapped(t.req[1])) =>
                /\ t.pc \in {"forward", "returned"}
                /\ t.target = None
                /\ t.fused = None
                /\ t.stream = 0
                /\ StreamsOf(c) = {}
                /\ Returned(t) =>
                    /\ ~t.result[1].ok
                    /\ t.result[1].status = 500
                    /\ t.log = <<Op("forward", "err")>>

C1_Witness ==
    \E c \in Conns :
        /\ Returned(task[c])
        /\ task[c].req[1].url.host = DomainHost(OtherExample)
        /\ task[c].result[1].status = 500

\* C2: a response of status 304 is returned with the body, status and
\* content headers async_h1::connect gave, its location, referer and
\* set-cookie headers rewritten, and no decoder, body rewrite or encoder in
\* the steps taken for it.
C2_NotModified ==
    \A c \in Conns :
        LET t == task[c]
        IN  (t.origin # None /\ t.origin[1].status = 304 /\ t.pc \notin {"headers", "status"}) =>
                /\ ReturnedOk(t)
                /\ t.resp[1].body = t.origin[1].body
                /\ t.resp[1].status = 304
                /\ Ops(t) \cap {"decoder", "encoder", "replace", "error"} = {}
                /\ \A n \in {"content-encoding", "content-type", "etag"} :
                        t.resp[1].headers[n] = t.origin[1].headers[n]
                /\ t.resp[1] =
                     rewrite_set_cookie(rewrite_referer(rewrite_location(t.origin[1], domain), domain))

C2_Witness ==
    \E c \in Conns :
        LET t == task[c]
        IN  /\ ReturnedOk(t)
            /\ t.origin[1].status = 304
            /\ t.origin[1].headers["content-encoding"] = Some("gzip")
            /\ t.origin[1].headers["content-type"] = Some(TextHtml)
            /\ t.origin[1].headers["location"] # None
            /\ t.resp[1].headers["location"] # t.origin[1].headers["location"]


RECURSIVE SubstFrom(_, _, _, _)
\* text from position i on, every occurrence of `from` met going right
\* replaced by `to`
SubstFrom(text, from, to, i) ==
    IF i > Len(text) THEN <<>>
    ELSE IF /\ i + Len(from) - 1 <= Len(text)
            /\ \A j \in 1..Len(from) : text[i + j - 1] = from[j]
         THEN to \o SubstFrom(text, from, to, i + Len(from))
         ELSE <<text[i]>> \o SubstFrom(text, from, to, i + 1)

RECURSIVE ChainSubst(_, _, _)
\* text after the substitutions of the first n entries of the table, each
\* entry's host_with_port replaced by its public domain
ChainSubst(text, dom, n) ==
    IF n = 0 THEN text
    ELSE SubstFrom(ChainSubst(text, dom, n - 1), host_with_port(dom[n].v), dom[n].k, 1)

Substituted(text) == ChainSubst(text, domain, Len(domain))

\* the table {"pub.example": "https://origin.internal:8443"}
TableA == <<[k |-> PubExample, v |-> [scheme |-> "https", host |-> OriginInternal, port |-> 8443]]>>

IsCoding(e) == e.op \in {"decoder", "replace", "error", "encoder"}

\* the transcoding and rewriting steps taken for a request, in order
Coding(t) == SelectSeq(t.log, IsCoding)

\* C3: for a response that is not 304 and declares gzip, br or deflate, the
\* steps are the decoder of that encoding, then at most one body rewrite (or
\* its logged failure), then the encoder of that encoding, each once; the
\* content-encoding header is returned as received; and when the origin's
\* body is compressed as declared and the rewrite did not fail, the returned
\* body is the rewritten text (the text itself for a type that is not
\* rewritten) under one layer of the declared encoding.  The JSON example of
\* the spec comes back as gzip of {"u":"pub.example"}.
C3_Transcode ==
    \A c \in Conns :
        LET t == task[c]
            o == t.origin[1]
            e == o.headers["content-encoding"]
        IN  (ReturnedOk(t) /\ o.status # 304 /\ e # None /\ Last(e) \in Handled) =>
                /\ \/ Coding(t) = <<Op("decoder", Last(e)), Op("encoder", Last(e))>>
                   \/ Coding(t) = <<Op("decoder", Last(e)), Op("replace", ""), Op("encoder", Last(e))>>
                   \/ Coding(t) = <<Op("decoder", Last(e)),
                                    Op("error", "can not convert body to utf-8 string"),
                                    Op("encoder", Last(e))>>
                /\ t.resp[1].headers["content-encoding"] = e
                /\ (o.body.enc = <<Last(e)>> /\ "error" \notin Ops(t)) =>
                     /\ ~t.resp[1].body.broken
                     /\ t.resp[1].body.enc = <<Last(e)>>
                     /\ t.resp[1].body.data =
                          IF "replace" \in Ops(t) THEN Substituted(o.body.data) ELSE o.body.data
                /\ ( /\ domain = TableA
                     /\ e = Some("gzip")
                     /\ o.headers["content-type"] = Some(Mime("application/json"))
                     /\ o.body.enc = <<"gzip">>
                     /\ o.body.data = BodyJson ) =>
                     /\ t.resp[1].body.enc = <<"gzip">>
                     /\ t.resp[1].body.data = BodyJsonRewritten

C3_Witness ==
    \E c \in Conns :
        LET t == task[c]
            o == t.origin[1]
        IN  /\ ReturnedOk(t)
            /\ domain = TableA
            /\ o.status = 200
            /\ o.headers["content-encoding"] = Some("gzip")
            /\ o.headers["content-type"] = Some(Mime("application/json"))
            /\ o.body.enc = <<"gzip">>
            /\ o.body.data = BodyJson
            /\ t.resp[1].body.data = BodyJsonRewritten
            /\ Coding(t) = <<Op("decoder", "gzip"), Op("replace", ""), Op("encoder", "gzip")>>

\* C4: once the headers are rewritten, a location header (and a referer
\* header) the origin sent carries the single value got from the origin's
\* value by the table's substitutions in iteration order, and a header the
\* origin did not send is still absent; with the table
\* {"pub.example": "https://origin.internal:8443"}, location
\* "https://origin.internal:8443/x" is "https://pub.example/x".
C4_LocationReferer ==
    \A c \in Conns :
        LET t == task[c]
            o == t.origin[1]
        IN  (t.origin # None /\ t.pc # "headers") =>
                /\ \A n \in {"location", "referer"} :
                     t.resp[1].headers[n] =
                        IF o.headers[n] = None THEN None
                        ELSE Some(Substituted(Last(o.headers[n])))
                /\ (domain = TableA /\ o.headers["location"] = Some(LocOrigin)) =>
                     t.resp[1].headers["location"] = Some(LocOriginRewritten)

\* both headers rewritten by a table of two entries
C4_Witness ==
    \E c \in Conns :
        LET t == task[c]
            o == t.origin[1]
        IN  /\ ReturnedOk(t)
            /\ Len(domain) = 2
            /\ o.headers["location"] = Some(LocTwice)
            /\ o.headers["referer"] = Some(RefOrigin)
            /\ t.resp[1].headers["location"] # o.headers["location"]
            /\ t.resp[1].headers["referer"] # o.headers["referer"]

\* the example of the spec is reached
C4_WitnessExample ==
    \E c \in Conns :
        /\ ReturnedOk(task[c])
        /\ domain = TableA
        /\ task[c].origin[1].headers["location"] = Some(LocOrigin)
        /\ task[c].resp[1].headers["location"] = Some(LocOriginRewritten)


\* a segment of a set-cookie value whose attribute name is "domain"
IsDomainAttribute(seg) ==
    LET s == trim_start(seg)
    IN  Len(s) >= 7 /\ to_lowercase(SubSeq(s, 1, 7)) = DomainEq

KeepsAttribute(seg) == ~IsDomainAttribute(seg)

\* a set-cookie value without its domain attribute segments
WithoutDomain(value) == join(SelectSeq(split(value, ";"), KeepsAttribute), ";")

\* C5: once the headers are rewritten, every set-cookie value is the
\* origin's value without the segments whose attribute name is "domain",
\* whatever their value, an empty one included.
C5_SetCookie ==
    \A c \in Conns :
        LET t == task[c]
            h == t.origin[1].headers["set-cookie"]
        IN  (t.origin # None /\ t.pc # "headers") =>
                t.resp[1].headers["set-cookie"] = [n \in DOMAIN h |-> WithoutDomain(h[n])]

\* the origin's body is compressed as its content-encoding declares
WellFormed(o) ==
    LET e == o.headers["content-encoding"]
    IN  o.body.enc = IF e # None /\ Last(e) \in Codecs THEN <<Last(e)>> ELSE <<>>

HasBadByte(text) == \E i \in DOMAIN text : text[i] = BadByte

IsRewritable(o) ==
    /\ o.headers["content-type"] # None
    /\ Last(o.headers["content-type"]).essence \in Rewritable

\* C6: a response that is not 304, has a rewritable content-type and a
\* decoded body that is not valid UTF-8 is returned with the body received
\* from the origin, and the failure is logged.
C6_NotUtf8 ==
    \A c \in Conns :
        LET t == task[c]
            o == t.origin[1]
            e == o.headers["content-encoding"]
        IN  ( /\ ReturnedOk(t)
              /\ o.status # 304
              /\ IsRewritable(o)
              /\ e = None \/ Last(e) \in Handled
              /\ WellFormed(o)
              /\ HasBadByte(o.body.data) ) =>
                /\ Op("error", "can not convert body to utf-8 string") \in
                        {t.log[i] : i \in DOMAIN t.log}
                /\ t.resp[1].body.data = o.body.data
                /\ t.resp[1].body.enc = o.body.enc

\* C7: a response that is not 304 and declares a content-encoding other
\* than gzip, br and deflate gets no decoder and no encoder, and its body
\* is returned byte for byte as received (so without any host substituted
\* in it), whatever its content-type.
C7_Unhandled ==
    \A c \in Conns :
        LET t == task[c]
            o == t.origin[1]
            e == o.headers["content-encoding"]
        IN  (ReturnedOk(t) /\ o.status # 304 /\ e # None /\ Last(e) \notin Handled) =>
                /\ Ops(t) \cap {"decoder", "encoder"} = {}
                /\ t.resp[1].body.data = o.body.data
                /\ t.resp[1].body.enc = o.body.enc

\* C8: the body rewrite runs only for a response whose content-type essence
\* is text/html, text/javascript, application/json or
\* application/manifest+json; a response of another content-type, or of
\* none, whose body can be decoded is returned with the text and the
\* compression it came with.
C8_OnlyRewritable ==
    \A c \in Conns :
        LET t == task[c]
            o == t.origin[1]
            e == o.headers["content-encoding"]
        IN  ReturnedOk(t) =>
                /\ "replace" \in Ops(t) => IsRewritable(o)
                /\ (~IsRewritable(o) /\ ~(e # None /\ Last(e) \in Handled /\ ~WellFormed(o))) =>
                     /\ "replace" \notin Ops(t)
                     /\ ~t.resp[1].body.broken
                     /\ t.resp[1].body.data = o.body.data
                     /\ t.resp[1].body.enc = o.body.enc

\* an image whose bytes hold an origin's host comes back with them
C8_Witness ==
    \E c \in Conns :
        LET t == task[c]
            o == t.origin[1]
        IN  /\ ReturnedOk(t)
            /\ Len(domain) = 2
            /\ o.status = 200
            /\ o.headers["content-type"] = Some(Mime("image/png"))
            /\ o.headers["content-encoding"] = Some("br")
            /\ o.body.enc = <<"br">>
            /\ o.body.data = BodyTwo
            /\ Substituted(BodyTwo) # BodyTwo
            /\ t.resp[1].body.data = BodyTwo

\* a compressed response without content-type is returned with its text
C8_WitnessNoType ==
    \E c \in Conns :
        LET t == task[c]
            o == t.origin[1]
        IN  /\ ReturnedOk(t)
            /\ o.status = 200
            /\ o.headers["content-type"] = None
            /\ o.headers["content-encoding"] = Some("gzip")
            /\ o.body.enc = <<"gzip">>
            /\ t.resp[1].body.data = o.body.data

\* the steps of forward that can fail, in the order of the code
FallibleSteps ==
    <<"forward", "address", "fuse_request", "relay_address", "socks5_connect",
      "tcp_connect", "scheme", "tls_connect", "h1_connect">>

Rank(op) == CHOOSE i \in DOMAIN FallibleSteps : FallibleSteps[i] = op

IsFallible(e) == \E i \in DOMAIN FallibleSteps : FallibleSteps[i] = e.op

\* C9: the fallible steps taken for a request are in the order of the code
\* and none is taken twice; a failed step is the last entry of the log, the
\* request is then returned as an error of status 500 without a response,
\* with at most one upstream stream and one exchange behind it; and every
\* error forward returns is such a failed step.
C9_Failures ==
    \A c \in Conns :
        LET t == task[c]
            steps == SelectSeq(t.log, IsFallible)
        IN  /\ \A i, j \in DOMAIN steps : i < j => Rank(steps[i].op) < Rank(steps[j].op)
            /\ \A i \in DOMAIN t.log :
                 t.log[i].arg = "err" =>
                    /\ i = Len(t.log)
                    /\ ReturnedErr(t)
            /\ ReturnedErr(t) =>
                    /\ t.log # <<>>
                    /\ Last(t.log).arg = "err"
                    /\ IsFallible(Last(t.log))
                    /\ t.result[1].status = 500
                    /\ t.resp = None
                    /\ Cardinality(StreamsOf(c)) <= 1
                    /\ \A i \in StreamsOf(c) : streams[i].exchanges <= 1

C9_Witness ==
    \E c \in Conns :
        LET t == task[c]
        IN  /\ ReturnedErr(t)
            /\ Last(t.log) = Op("tls_connect", "err")
            /\ t.result[1].status = 500
            /\ t.stream # 0


\* requests task c has started: those served and the one in flight
Started(c) == task[c].served + (IF task[c].pc = "idle" THEN 0 ELSE 1)

\* C10: every upstream stream was opened for one request that was started,
\* no two streams were opened for the same request, at most one HTTP/1
\* exchange ran over each, and the stream a task holds is the one opened for
\* the request it serves now: no stream is used by two requests.
C10_OneStreamPerRequest ==
    /\ \A i \in DOMAIN streams :
        /\ streams[i].exchanges <= 1
        /\ streams[i].req >= 1
        /\ streams[i].req <= Started(streams[i].conn) \/ ~listening
        /\ \A j \in DOMAIN streams :
             (streams[i].conn = streams[j].conn /\ streams[i].req = streams[j].req) => i = j
    /\ \A c \in Conns :
        /\ task[c].stream # 0 =>
             /\ task[c].stream \in DOMAIN streams
             /\ streams[task[c].stream].conn = c
             /\ streams[task[c].stream].req = task[c].served + 1
        /\ \A d \in Conns :
             (c # d /\ task[c].stream # 0) => task[c].stream # task[d].stream
        /\ Cardinality(StreamsOf(c)) <= 1

\* a second keep-alive request holds its own stream while another
\* connection's request holds one too
C10_Witness ==
    \E c, d \in Conns :
        /\ c # d
        /\ task[c].served = 1
        /\ task[c].stream # 0
        /\ task[d].stream # 0
        /\ Len(streams) >= 3
        /\ streams[task[c].stream].exchanges = 1

\* a step of the server ends the task of connection c with a failure
Fails(c) == task[c].conn = "open" /\ task'[c].conn = "failed"

\* C11: a step in which the task of one client connection fails (a request
\* that cannot be decoded, an Err of forward, a body that cannot be written)
\* changes that task only: the accept loop is still running after it, and
\* the task of every other connection, the upstream streams and the Domain
\* Table are what they were, so every other task goes on from its own state.
C11_FailureIsLocal ==
    [][\A c \in Conns :
          Fails(c) =>
              /\ listening /\ listening'
              /\ \A d \in Conns \ {c} : task'[d] = task[d]
              /\ streams' = streams
              /\ domain' = domain
              /\ socks5_server' = socks5_server]_vars

\* one connection has failed and another has had a request answered since
C11_Witness ==
    /\ listening
    /\ task[1].conn = "failed"
    /\ task[1].served = 1
    /\ task[2].conn = "open"
    /\ task[2].served = 1
    /\ ReturnedOk(task[2])

\* the steps of a log, in order
Steps(log) == [i \in DOMAIN log |-> log[i].op]

\* the steps of forward that resolve a name or open a stream
Connecting == {"address", "relay_address", "socks5_connect", "tcp_connect"}

\* the resolving and connecting steps that succeeded for the request of t
Connects(t) ==
    SelectSeq(t.log, LAMBDA o : o.op \in Connecting /\ o.arg # "err")

\* C12: with a relay configured a request takes no step that resolves the
\* target's name (that is left to the relay) and opens no direct TCP
\* connection; once connected it has resolved the relay's address and made
\* one CONNECT that carried the target's host as a name and its port.  With
\* no relay it resolves the target's address and opens one direct TCP
\* connection to it, and nothing goes through a relay.
C12_Relay ==
    \A c \in Conns :
        LET t == task[c]
            mine == StreamsOf(c)
        IN  IF socks5_server # None
            THEN /\ "address" \notin Ops(t)
                 /\ "tcp_connect" \notin Ops(t)
                 /\ \A i \in mine :
                        /\ streams[i].via = "socks5"
                        /\ streams[i].to.kind = "name"
                        /\ t.target # None => streams[i].to = Destination(t.target[1], streams[i].via)
                 /\ t.stream # 0 =>
                        /\ Cardinality(mine) = 1
                        /\ Steps(Connects(t)) = <<"relay_address", "socks5_connect">>
            ELSE /\ Ops(t) \cap {"relay_address", "socks5_connect"} = {}
                 /\ \A i \in mine :
                        /\ streams[i].via = "tcp"
                        /\ streams[i].to.kind = "addr"
                        /\ t.target # None => streams[i].to = Destination(t.target[1], streams[i].via)
                 /\ t.stream # 0 =>
                        /\ Cardinality(mine) = 1
                        /\ Steps(Connects(t)) = <<"address", "tcp_connect">>

\* the request of task t is past the match on target.scheme()
Dispatched(t) ==
    t.stream # 0 /\ (t.pc \notin {"scheme", "h1"} \/ "tls_connect" \in Ops(t))

\* C13: an HTTP/1 exchange is run for a request only when its target's
\* scheme is https or http: for https over the stream wrapped in TLS by a
\* handshake done with target.host, for http over the stream as connected.
\* A request that has its stream and whose target has any other scheme gets
\* no TLS handshake and no exchange, and once the match on the scheme is
\* done it has failed with the unsupported-scheme error of status 500.
C13_Scheme ==
    \A c \in Conns :
        LET t == task[c]
        IN  t.target # None =>
                LET scheme == t.target[1].scheme
                    exchanged == "h1_connect" \in Ops(t)
                IN  /\ exchanged => scheme \in {"http", "https"}
                    /\ (exchanged /\ scheme = "https") => t.tls = Some(t.target[1].host)
                    /\ (exchanged /\ scheme = "http") => t.tls = None
                    /\ t.tls # None => scheme = "https"
                    /\ t.stream # 0 => (streams[t.stream].exchanges = IF exchanged THEN 1 ELSE 0)
                    /\ (scheme \notin {"http", "https"} /\ Dispatched(t)) =>
                            /\ ~exchanged
                            /\ t.resp = None /\ t.origin = None
                            /\ t.result = Some(http_error("unsupported scheme"))
                            /\ Last(t.log) = Op("scheme", "err")

\* a ws target, its stream tunneled through the relay: the request has failed
\* with the unsupported-scheme error and no exchange ran over the stream
C13_Witness ==
    \E c \in Conns :
        LET t == task[c]
        IN  /\ ReturnedErr(t)
            /\ t.target # None
            /\ t.target[1].scheme = "ws"
            /\ t.stream # 0
            /\ streams[t.stream].via = "socks5"
            /\ streams[t.stream].exchanges = 0
            /\ t.result[1] = http_error("unsupported scheme")

\* f is rq with its Host header and its URL's scheme, host and port set to
\* those of target and everything else as in rq
Retargeted(f, rq, target) ==
    /\ f.host = target.host
    /\ f.url.scheme = target.scheme
    /\ f.url.host.name = target.host
    /\ f.url.port = target.port
    /\ f.method = rq.method
    /\ f.url.path = rq.url.path
    /\ f.url.query = rq.url.query
    /\ f.headers = rq.headers
    /\ f.body = rq.body

\* C14: the request fuse_request returned is the request forward was called
\* with, its Host header and its URL's scheme, host and port set to the
\* target's and its method, path, query, other headers and body unchanged;
\* and no step taken after fuse_request changes it, or the request received
\* or the target, while the request is served.
C14_Retarget ==
    [][\A c \in Conns :
          task'[c].fused # None =>
              /\ Retargeted(task'[c].fused[1], task'[c].req[1], task'[c].target[1])
              /\ task[c].fused # None =>
                    /\ task'[c].fused = task[c].fused
                    /\ task'[c].req = task[c].req
                    /\ task'[c].target = task[c].target]_vars

\* a POST with a body for pub.example, retargeted to
\* https://origin.internal:8443 and answered
C14_Witness ==
    \E c \in Conns :
        LET t == task[c]
        IN  /\ ReturnedOk(t)
            /\ t.req[1].method = "POST"
            /\ t.req[1].url.host = DomainHost(PubExample)
            /\ t.fused[1].url.host = DomainHost(OriginInternal)
            /\ t.fused[1].url.scheme = "https"
            /\ t.fused[1].url.port = 8443
            /\ t.fused[1].body = <<"a", "=", "b">>

\* the port is the default one of an http or https target
IsDefaultPort(t) ==
    \/ t.scheme = "http" /\ t.port = 80
    \/ t.scheme = "https" /\ t.port = 443

\* text is host, a colon and the decimal digits of port
IsHostColonPort(text, host, port) ==
    LET n == Len(host)
        digits == SubSeq(text, n + 2, Len(text))
    IN  /\ Len(text) >= n + 2
        /\ SubSeq(text, 1, n) = host
        /\ text[n + 1] = ":"
        /\ \A i \in DOMAIN digits : IsDigit(digits[i])
        /\ digits[1] # "0" \/ Len(digits) = 1
        /\ ParseNat(digits) = port

\* C15: for every Target try_from returned, host_with_port is the host alone
\* exactly when the port is 80 of an http target or 443 of an https target,
\* and the host, a colon and the port in decimal otherwise; for
\* "https://a.com:443" it is "a.com" and for "https://a.com:8443" it is
\* "a.com:8443".
C15_HostWithPort ==
    /\ call.fn = "host_with_port" =>
            /\ call.out = call.arg.host <=> IsDefaultPort(call.arg)
            /\ ~IsDefaultPort(call.arg) =>
                    IsHostColonPort(call.out, call.arg.host, call.arg.port)
    /\ (call.fn = "try_from" /\ call.arg = SpecACom443) =>
            call.out.ok /\ host_with_port(call.out.target) = ACom
    /\ (call.fn = "try_from" /\ call.arg = SpecACom8443) =>
            call.out.ok /\ host_with_port(call.out.target) = ACom8443

\* host_with_port of the Target "https://a.com:8443" gave
C15_Witness ==
    /\ call.fn = "host_with_port"
    /\ call.arg = [scheme |-> "https", host |-> ACom, port |-> 8443]
    /\ call.out = ACom8443

\* what the Target Resolver promises of a Target
IsValidTarget(t) ==
    /\ t.scheme \in {"http", "https"}
    /\ t.host # <<>>
    /\ t.port \in 1..65535

\* the origin specification names no port after its host
HasNoPort(s) ==
    LET at == IF Contains(s, SchemeSep) THEN IndexOf(s, ":") + 2 ELSE 0
    IN  \A i \in (at + 1)..Len(s) : s[i] # ":"

\* C16: every Target try_from returns, and every Target of the Domain Table,
\* has scheme http or https, a host that is not empty and a port in
\* 1..65535; a specification without "://" gives an https Target, one
\* without a port gives port 80 for http and 443 for https, and one without
\* a host or without a port that can be resolved gives an Err.
C16_Target ==
    /\ \A i \in DOMAIN domain : IsValidTarget(domain[i].v)
    /\ call.fn = "try_from" =>
            /\ call.out.ok =>
                    /\ IsValidTarget(call.out.target)
                    /\ ~Contains(call.arg, SchemeSep) => call.out.target.scheme = "https"
                    /\ HasNoPort(call.arg) =>
                            call.out.target.port =
                                (IF call.out.target.scheme = "http" THEN 80 ELSE 443)
            /\ call.arg \in {SpecNoHost, SpecEmpty, SpecOpaque, SpecFooNoPort} => ~call.out.ok

\* the response Forward::request returns for the response `origin` of the
\* origin server when it is the only request served
Alone(origin, dom) ==
    LET h == rewrite_set_cookie(rewrite_referer(rewrite_location(origin, dom), dom))
    IN  IF h.status = 304 THEN h
        ELSE code("En", rewrite_body(code("De", h), dom))

\* the table is one Forward::new builds from a configuration
IsBuilt(dom) ==
    \E cfg \in Configs : new(cfg).ok /\ dom \in IterationOrders(new(cfg).domain)

\* C17: no step of the server changes the Domain Table, which stays a table
\* Forward::new built, entries and order; and whatever the other
\* connections do, the response a request is answered with is the one its
\* origin's response gives when the request is served alone.
C17_TableReadOnly ==
    /\ IsBuilt(domain)
    /\ [][/\ domain' = domain
          /\ \A c \in Conns :
                (~ReturnedOk(task[c]) /\ ReturnedOk(task'[c])) =>
                    task'[c].resp[1] = Alone(task'[c].origin[1], domain)]_vars

\* two connections answered at once from a table of two entries, the body
\* of one rewritten
C17_Witness ==
    /\ Len(domain) = 2
    /\ ReturnedOk(task[1])
    /\ ReturnedOk(task[2])
    /\ task[1].resp[1].body # task[1].origin[1].body

\* text holds no occurrence of the host_with_port of any Target of the table
NoOccurrence(text, dom) ==
    \A i \in DOMAIN dom : ~Contains(text, host_with_port(dom[i].v))

\* C18: the replace loop applied to a text that holds no occurrence of any
\* Target's host_with_port returns the text as it was, and applied to that
\* result returns it as it was again.
C18_NoOccurrence ==
    (call.fn = "replace_domain" /\ NoOccurrence(call.arg, domain)) => call.out = call.arg

\* "origin.internal", without the port of the Target, rewritten twice over
\* the table {"pub.example": "https://origin.internal:8443"}
C18_Witness ==
    /\ call.fn = "replace_domain"
    /\ call.times = 2
    /\ call.arg = OriginInternal
    /\ call.out = OriginInternal
    /\ domain = TableA

\* the orders in which the table dom can be iterated
Orders(dom) == IterationOrders({dom[i] : i \in DOMAIN dom})

\* the host_with_port of one Target of the table is a substring of that of
\* another
HasNestedHosts(dom) ==
    \E i, j \in DOMAIN dom :
        /\ i # j
        /\ Contains(host_with_port(dom[j].v), host_with_port(dom[i].v))

\* C19: what the replace loop returns is the text after one substitution of
\* every occurrence per entry of the table, taken in the order the table
\* iterates and each applied to the result of the one before; and for a
\* table in which one host_with_port is a substring of another there is a
\* text that another iteration order of the same table rewrites differently.
C19_OrderDependent ==
    /\ (call.fn = "replace_domain" /\ call.times = 1) =>
            call.out = ChainSubst(call.arg, domain, Len(domain))
    /\ HasNestedHosts(domain) =>
            \E text \in RewriteTexts : \E o \in Orders(domain) :
                replace_domain(text, o) # replace_domain(text, domain)

\* "o.io:8443 o.io" rewritten over {p.io: http://o.io, q.io: o.io:8443}: the
\* other order of the table gives another text
C19_Witness ==
    /\ call.fn = "replace_domain"
    /\ call.arg = BodyTwo
    /\ HasNestedHosts(domain)
    /\ \E o \in Orders(domain) : replace_domain(BodyTwo, o) # call.out

\* the headers Forward::request rewrites
RewrittenHeaders == {"location", "referer", "set-cookie"}

\* C20: a response forward returns with Ok has the status the origin sent,
\* the content-encoding header the origin sent, the content-type header the
\* origin sent when it sent one, and every header other than location,
\* referer and set-cookie as received; a header the origin did not send is
\* not added, but for a content-type.
C20_Frame ==
    \A c \in Conns :
        LET t == task[c]
        IN  ReturnedOk(t) =>
                LET r == t.resp[1]
                    o == t.origin[1]
                IN  /\ r.status = o.status
                    /\ r.headers["content-encoding"] = o.headers["content-encoding"]
                    /\ o.headers["content-type"] # None =>
                            r.headers["content-type"] = o.headers["content-type"]
                    /\ DOMAIN r.headers = DOMAIN o.headers
                    /\ \A n \in DOMAIN o.headers \ (RewrittenHeaders \cup {"content-type"}) :
                            r.headers[n] = o.headers[n]
                    /\ \A n \in RewrittenHeaders : o.headers[n] = None => r.headers[n] = None

\* a gzip JSON response with location and set-cookie: the values of both and
\* the body are rewritten, status and content headers are the origin's
C20_Witness ==
    \E c \in Conns :
        LET t == task[c]
        IN  /\ ReturnedOk(t)
            /\ t.origin[1].status = 200
            /\ t.origin[1].headers["content-encoding"] = Some("gzip")
            /\ t.origin[1].headers["content-type"] = Some(Mime("application/json"))
            /\ t.resp[1].headers["content-type"] = Some(Mime("application/json"))
            /\ t.resp[1].headers["location"] # t.origin[1].headers["location"]
            /\ t.resp[1].headers["set-cookie"] # t.origin[1].headers["set-cookie"]
            /\ t.resp[1].body # t.origin[1].body

====
